---- MODULE Spec2Model ----
(***************************************************************************)
(* Orchestration layer of the route-optimization front end:               *)
(*   - the two services/api modules of the repository                     *)
(*       "src"      = src/services/api.js                                  *)
(*       "frontend" = frontend/src/services/api.js                         *)
(*   - the workflow state controller of App.jsx (handleSubmit,             *)
(*     handleMapOptimization, handleReset); its showMap flag, which only   *)
(*     shows and hides the map modal, is left out.                         *)
(* Network calls are asynchronous: a handler or api function runs up to    *)
(* its next await in one step, and the response of the pending request     *)
(* resumes it in a later step.                                             *)
(***************************************************************************)
EXTENDS Integers, Sequences, FiniteSets, TLC

VARIABLES
    apiModule,           \* the module "./services/api" resolves to
    query,               \* App state: useState('')
    loading,             \* App state: useState(false)
    error,               \* App state: useState(null)
    extractedLocations,  \* App state: useState(null)
    optimizationResult,  \* App state: useState(null)
    stage,               \* App state: useState('input')
    ops,                 \* the tracked invocations of api functions, by slot
    wire,                \* history: the requests and responses of the tracked invocations
    last                 \* history: the handler or call that ran in the last step

vars == << apiModule, query, loading, error, extractedLocations,
           optimizationResult, stage, ops, wire, last >>

appVars == << query, loading, error, extractedLocations,
              optimizationResult, stage >>

(***************************************************************************)
(* Bounds of the model.                                                    *)
(***************************************************************************)
\* longest location list an extraction response or a map selection carries
MaxLocs == 2
\* largest explicit visit_sequence a location carries
MaxSeq == 2
\* number of invocations tracked at a time: those in flight and the one that
\* settled last
MaxOps == 2
\* longest query text
MaxQueryLen == 1

(***************************************************************************)
(* Values.                                                                 *)
(***************************************************************************)
\* JavaScript null / undefined of a string or of an opaque result
NULL == "null"

\* a location's visit_sequence that is null or undefined (what ?? tests for)
NoSeq == 0

\* a null / undefined location list, and a present one
NullList == [isNull |-> TRUE, items |-> << >>]
List(s) == [isNull |-> FALSE, items |-> s]

Places ==
    { [name |-> "A", lat |-> 28, lon |-> 77],
      [name |-> "B", lat |-> 19, lon |-> 72] }

Locations ==
    { [name |-> p.name, lat |-> p.lat, lon |-> p.lon, visit_sequence |-> s] :
        p \in Places, s \in 0..MaxSeq }

LocSeqs == UNION { [1..n -> Locations] : n \in 0..MaxLocs }

\* every value a parsed_locations field or a locations argument can have
LocLists == {NullList} \cup { List(s) : s \in LocSeqs }

\* the lists the controller is run with: it hands a list through unchanged, so
\* one place with and without a visit_sequence gives every shape of list
\* (null, empty, short, unsequenced, sequenced, mixed)
AppLocations ==
    { l \in Locations : l.name = "A" /\ l.visit_sequence \in {NoSeq, MaxSeq} }

AppLists ==
    {NullList} \cup
    { List(s) : s \in UNION { [1..n -> AppLocations] : n \in 0..MaxLocs } }

Chars == {" ", "d"}

Queries == UNION { [1..n -> Chars] : n \in 0..MaxQueryLen }

\* what the optimizer answers (opaque to this layer)
Results == {"route-1", "route-2"}

\* the detail field of an error-status response body; NULL when it has none
Details == {"optimizer unavailable", NULL}

\* outcomes of one request at the transport client: a response, a response
\* with an error status, no response within the timeout
Outcomes == {"ok", "error_status", "timeout"}

ApiModules == {"src", "frontend"}

EXTRACT == "/extract-sequence"
OPTIMIZE == "/optimize-route"
HEALTH == "/health"

\* the status field of the /health response body; NULL when it has none
HealthStatuses == {"healthy", NULL}

(***************************************************************************)
(* String.prototype.trim, on a query as a sequence of characters.          *)
(***************************************************************************)
RECURSIVE trimStart(_)
trimStart(s) ==
    IF s = << >> THEN << >>
    ELSE IF Head(s) = " " THEN trimStart(Tail(s)) ELSE s

RECURSIVE trimEnd(_)
trimEnd(s) ==
    IF s = << >> THEN << >>
    ELSE IF s[Len(s)] = " " THEN trimEnd(SubSeq(s, 1, Len(s) - 1)) ELSE s

trim(s) == trimEnd(trimStart(s))

(***************************************************************************)
(* services/api: the pure parts.                                           *)
(***************************************************************************)
\* src/services/api.js optimizeRoute: the payload built by parsedLocations.map
\* (index is 0-based in the source, i is 1-based here: index + 1 = i)
srcPayload(parsedLocations) ==
    [i \in 1..Len(parsedLocations) |->
        [name |-> parsedLocations[i].name,
         lat |-> parsedLocations[i].lat,
         lon |-> parsedLocations[i].lon,
         visit_sequence |->
            IF parsedLocations[i].visit_sequence /= NoSeq
            THEN parsedLocations[i].visit_sequence
            ELSE i]]

\* optimizeRoute throws before any request: src calls .map on its argument
optimizeRouteThrows(api, locs) == api = "src" /\ locs.isNull

TYPE_ERROR == "Cannot read properties of null (reading 'map')"

\* the parsed_locations field of the /optimize-route request body
optimizeRoutePayload(api, locs) ==
    IF api = "src" THEN List(srcPayload(locs.items)) ELSE locs

\* src/services/api.js optimizeFromMap: the validation gate
MIN_LOCATIONS == 2

\* variant: the gate tests for an empty selection only
optimizeFromMapRejects_emptyOnly(locations) ==
    locations.isNull \/ Len(locations.items) < 1

optimizeFromMapRejects(locations) ==
    locations.isNull \/ Len(locations.items) < MIN_LOCATIONS

MAP_GATE_MESSAGE == "Select at least two locations."

\* variant: the map flow numbers the locations from the last to the first
enrichedLocations_countdown(locations) ==
    List([i \in 1..Len(locations.items) |->
            [name |-> locations.items[i].name,
             lat |-> locations.items[i].lat,
             lon |-> locations.items[i].lon,
             visit_sequence |-> Len(locations.items) - i + 1]])

\* src/services/api.js optimizeFromMap: enrichedLocations
enrichedLocations(locations) ==
    List([i \in 1..Len(locations.items) |->
            [name |-> locations.items[i].name,
             lat |-> locations.items[i].lat,
             lon |-> locations.items[i].lon,
             visit_sequence |-> i]])

\* processLogisticsRequest: the gate between extraction and optimization
gateRejects(api, parsed) ==
    IF api = "src"
    THEN parsed.isNull \/ Len(parsed.items) < MIN_LOCATIONS
    ELSE parsed.isNull \/ Len(parsed.items) = 0

gateMessage(api) ==
    IF api = "src"
    THEN "At least two locations are required."
    ELSE "No locations found in your request. Please provide city names."

\* the message of the error axios rejects with
axiosMessage(outcome) ==
    IF outcome = "error_status"
    THEN "Request failed with status code 500"
    ELSE "timeout of 60000ms exceeded"

fallbackMessage(route) ==
    IF route = EXTRACT
    THEN "Failed to extract locations from your request. Please try again."
    ELSE "Failed to optimize route. Please check your input and try again."

\* the message of the error an adapter (extractSequence, optimizeRoute) throws
\* when its request fails: frontend wraps it, src lets the axios error through
adapterMessage(api, route, outcome, detail) ==
    IF api = "frontend"
    THEN IF outcome = "error_status" /\ detail /= NULL
         THEN detail
         ELSE fallbackMessage(route)
    ELSE axiosMessage(outcome)

(***************************************************************************)
(* Invocations and the transport client's history.                         *)
(***************************************************************************)
Slots == 1..MaxOps

IdleOp ==
    [fn |-> "none", caller |-> "none", pc |-> "idle", status |-> "none",
     text |-> << >>, arg |-> NullList, extracted |-> NullList,
     message |-> NULL, value |-> NULL, late |-> FALSE]

\* the slot the next invocation takes; MaxOps + 1 when the bound is reached
freeSlot ==
    IF \E i \in Slots : ops[i].pc = "idle"
    THEN CHOOSE i \in Slots :
            ops[i].pc = "idle" /\ \A j \in Slots : ops[j].pc = "idle" => i <= j
    ELSE MaxOps + 1

Request(i, route, text, locs) ==
    [ev |-> "request", op |-> i, route |-> route, text |-> text,
     locs |-> locs, outcome |-> NULL, detail |-> NULL, result |-> NULL]

Response(i, route, outcome) ==
    [ev |-> "response", op |-> i, route |-> route, text |-> << >>,
     locs |-> NullList, outcome |-> outcome, detail |-> NULL, result |-> NULL]

\* the response bodies: parsed_locations of an extraction, the optimizer's
\* result (or the status of a health response), the detail of an error status
Extraction(i, parsed) == [Response(i, EXTRACT, "ok") EXCEPT !.locs = parsed]

Answer(i, route, result) == [Response(i, route, "ok") EXCEPT !.result = result]

Failure(i, route, outcome, detail) ==
    [Response(i, route, outcome) EXCEPT !.detail = detail]

settled(r) == r.status \in {"resolved", "rejected"}

\* invocation i awaits the response to its request ("extract" or "optimize")
awaits(i, pc) == ops[i].pc = pc

\* no invocation is pending or waits to be returned
idle == \A j \in Slots : ops[j].pc = "idle"

\* invocation i is in flight and the response that settled invocation j
\* arrived after i sent a request: the two were in flight at once
overlapped(i, j) ==
    /\ i /= j
    /\ ops[i].status = "pending" /\ settled(ops[j])
    /\ \E a, b \in 1..Len(wire) :
          /\ a < b
          /\ wire[a].ev = "request" /\ wire[a].op = i
          /\ wire[b].ev = "response" /\ wire[b].op = j

\* Invocation i continues as record r2, the wire as w2. The history keeps the
\* invocations in flight and the one that settled last: when i settles, the
\* invocations settled before it leave ops and wire, and their slots are free;
\* the late field of i records that one of them had overlapped with i.
track(i, r2, w2) ==
    IF settled(r2)
    THEN LET kept(e) == e.op = i \/ ~settled(ops[e.op])
         IN  /\ ops' = [j \in Slots |->
                          IF j = i
                          THEN [r2 EXCEPT !.late = \E o \in Slots : overlapped(i, o)]
                          ELSE IF settled(ops[j]) THEN IdleOp ELSE ops[j]]
             /\ wire' = SelectSeq(w2, kept)
    ELSE /\ ops' = [ops EXCEPT ![i] = r2]
         /\ wire' = w2

resolve(r) == [r EXCEPT !.pc = "done", !.status = "resolved"]

reject(r, msg) == [r EXCEPT !.pc = "done", !.status = "rejected", !.message = msg]

(***************************************************************************)
(* services/api: the asynchronous functions, up to their first await.      *)
(* Each yields the invocation's record and the wire after the step.        *)
(***************************************************************************)
\* extractSequence(requestText): api.post('/extract-sequence', ...)
extractSequenceCall(i, r, requestText) ==
    [op |-> [r EXCEPT !.pc = "extract", !.status = "pending", !.text = requestText],
     wire |-> Append(wire, Request(i, EXTRACT, requestText, NullList))]

\* variant: the optimization request is issued without awaiting the extraction
processLogisticsRequestCall_parallel(i, r, requestText) ==
    [op |-> [r EXCEPT !.pc = "extract", !.status = "pending", !.text = requestText],
     wire |-> wire \o << Request(i, EXTRACT, requestText, NullList),
                         Request(i, OPTIMIZE, << >>, List(<< >>)) >>]

\* processLogisticsRequest(requestText) up to `await extractSequence(requestText)`
processLogisticsRequestCall(i, r, requestText) ==
    extractSequenceCall(i, r, requestText)

\* variant: the payload is written into the list optimizeRoute was given
optimizeRouteCall_inPlace(i, r, parsedLocations) ==
    IF optimizeRouteThrows(apiModule, parsedLocations)
    THEN [op |-> reject(r, TYPE_ERROR), wire |-> wire]
    ELSE LET payload == optimizeRoutePayload(apiModule, parsedLocations)
         IN  [op |-> [r EXCEPT !.pc = "optimize", !.status = "pending",
                               !.arg = IF r.arg = parsedLocations THEN payload ELSE @,
                               !.extracted =
                                   IF r.extracted = parsedLocations THEN payload ELSE @],
              wire |-> Append(wire, Request(i, OPTIMIZE, << >>, payload))]

\* optimizeRoute(parsedLocations): build the payload, api.post('/optimize-route', ...)
optimizeRouteCall(i, r, parsedLocations) ==
    IF optimizeRouteThrows(apiModule, parsedLocations)
    THEN [op |-> reject(r, TYPE_ERROR), wire |-> wire]
    ELSE [op |-> [r EXCEPT !.pc = "optimize", !.status = "pending"],
          wire |-> Append(wire,
                     Request(i, OPTIMIZE, << >>,
                             optimizeRoutePayload(apiModule, parsedLocations)))]

\* optimizeFromMap(locations): gate, enrich, delegate to optimizeRoute
optimizeFromMapCall(i, r, locations) ==
    IF optimizeFromMapRejects(locations)
    THEN [op |-> reject(r, MAP_GATE_MESSAGE), wire |-> wire]
    ELSE optimizeRouteCall(i, r, enrichedLocations(locations))

\* healthCheck() up to `await api.get('/health')`
healthCheckCall(i, r) ==
    [op |-> [r EXCEPT !.pc = "health", !.status = "pending"],
     wire |-> Append(wire, Request(i, HEALTH, << >>, NullList))]

\* variant: the catch block throws the error on
healthCheckCatch_rethrows(api, r, outcome) ==
    reject(r, axiosMessage(outcome))

\* healthCheck's catch block: the value it returns is { status: 'offline' };
\* frontend adds error: error.message (kept in the message field)
healthCheckCatch(api, r, outcome) ==
    resolve([r EXCEPT !.value = "offline",
                      !.message = IF api = "frontend"
                                  THEN axiosMessage(outcome) ELSE NULL])

\* processLogisticsRequest after extractSequence resolved with parsed_locations
afterExtraction(i, r, parsed) ==
    LET r1 == [r EXCEPT !.extracted = parsed]
        w1 == Append(wire, Extraction(i, parsed))
    IN  IF r.fn = "extractSequence"
        THEN [op |-> resolve(r1), wire |-> w1]
        ELSE IF gateRejects(apiModule, parsed)
        THEN [op |-> reject(r1, gateMessage(apiModule)), wire |-> w1]
        ELSE LET n == optimizeRouteCall(i, r1, parsed)
             IN  [op |-> n.op,
                  wire |-> IF n.op.pc = "optimize"
                           THEN Append(w1, n.wire[Len(n.wire)])
                           ELSE w1]

(***************************************************************************)
(* App.jsx: the workflow state controller.                                 *)
(***************************************************************************)
BLANK_MESSAGE == "Please enter a logistics request"

orElse(msg, fallback) == IF msg = NULL \/ msg = "" THEN fallback ELSE msg

\* variant: there is no finally block
handleSubmitResumes_keepsLoading(r) ==
    /\ IF r.status = "resolved"
       THEN /\ extractedLocations' = r.extracted
            /\ optimizationResult' = r.value
            /\ stage' = "results"
            /\ UNCHANGED error
       ELSE /\ error' = orElse(r.message, "Something went wrong")
            /\ stage' = "input"
            /\ UNCHANGED << extractedLocations, optimizationResult >>
    /\ UNCHANGED << loading, query >>

\* variant: the catch block sets the error but not the stage
handleSubmitResumes_noStage(r) ==
    /\ IF r.status = "resolved"
       THEN /\ extractedLocations' = r.extracted
            /\ optimizationResult' = r.value
            /\ stage' = "results"
            /\ UNCHANGED error
       ELSE /\ error' = orElse(r.message, "Something went wrong")
            /\ UNCHANGED << stage, extractedLocations, optimizationResult >>
    /\ loading' = FALSE
    /\ UNCHANGED query

\* handleSubmit after `await processLogisticsRequest(query)`:
\* the try body's tail, or the catch block; then the finally block
handleSubmitResumes(r) ==
    /\ IF r.status = "resolved"
       THEN /\ extractedLocations' = r.extracted
            /\ optimizationResult' = r.value
            /\ stage' = "results"
            /\ UNCHANGED error
       ELSE /\ error' = orElse(r.message, "Something went wrong")
            /\ stage' = "input"
            /\ UNCHANGED << extractedLocations, optimizationResult >>
    /\ loading' = FALSE
    /\ UNCHANGED query

\* variant: the submitted locations are not committed
handleMapOptimizationResumes_keepsExtracted(r) ==
    /\ IF r.status = "resolved"
       THEN /\ optimizationResult' = r.value
            /\ stage' = "results"
            /\ UNCHANGED << error, extractedLocations >>
       ELSE /\ error' = orElse(r.message, "Route optimization failed")
            /\ stage' = "input"
            /\ UNCHANGED << extractedLocations, optimizationResult >>
    /\ loading' = FALSE
    /\ UNCHANGED query

\* handleMapOptimization after `await optimizeRoute(locations)`
handleMapOptimizationResumes(r) ==
    /\ IF r.status = "resolved"
       THEN /\ extractedLocations' = r.arg
            /\ optimizationResult' = r.value
            /\ stage' = "results"
            /\ UNCHANGED error
       ELSE /\ error' = orElse(r.message, "Route optimization failed")
            /\ stage' = "input"
            /\ UNCHANGED << extractedLocations, optimizationResult >>
    /\ loading' = FALSE
    /\ UNCHANGED query

\* variant: only handleSubmit is resumed
callerResumes_submitOnly(r) ==
    IF settled(r) /\ r.caller = "handleSubmit" THEN handleSubmitResumes(r)
    ELSE UNCHANGED appVars

\* the caller of invocation r continues once r is settled
callerResumes(r) ==
    IF settled(r) /\ r.caller = "handleSubmit" THEN handleSubmitResumes(r)
    ELSE IF settled(r) /\ r.caller = "handleMapOptimization"
         THEN handleMapOptimizationResumes(r)
    ELSE UNCHANGED appVars

\* setQuery, from the textarea or an example query
setQuery(q) ==
    /\ query' = q
    /\ last' = "setQuery"
    /\ UNCHANGED << apiModule, loading, error, extractedLocations,
                    optimizationResult, stage, ops, wire >>

\* ErrorDisplay onDismiss: setError(null)
dismissError ==
    /\ error /= NULL
    /\ error' = NULL
    /\ last' = "dismissError"
    /\ UNCHANGED << apiModule, query, loading, extractedLocations,
                    optimizationResult, stage, ops, wire >>

\* variant: the blank test comes after the statements that clear the results
handleSubmitBlank_clears ==
    /\ trim(query) = << >>
    /\ error' = BLANK_MESSAGE
    /\ extractedLocations' = NullList
    /\ optimizationResult' = NULL
    /\ last' = "handleSubmitBlank"
    /\ UNCHANGED << apiModule, query, loading, stage, ops, wire >>

\* handleSubmit with a blank query: setError and return
handleSubmitBlank ==
    /\ trim(query) = << >>
    /\ error' = BLANK_MESSAGE
    /\ last' = "handleSubmitBlank"
    /\ UNCHANGED << apiModule, query, loading, extractedLocations,
                    optimizationResult, stage, ops, wire >>

\* variant: the results of the previous run are not cleared
handleSubmitStarts_keepsResults ==
    /\ trim(query) /= << >>
    /\ freeSlot \in Slots
    /\ LET i == freeSlot
           r == [IdleOp EXCEPT !.fn = "processLogisticsRequest",
                               !.caller = "handleSubmit"]
           n == processLogisticsRequestCall(i, r, query)
       IN  track(i, n.op, n.wire)
    /\ loading' = TRUE
    /\ error' = NULL
    /\ stage' = "processing"
    /\ last' = "handleSubmitStarts"
    /\ UNCHANGED << apiModule, query, extractedLocations, optimizationResult >>

\* handleSubmit up to `await processLogisticsRequest(query)`
handleSubmitStarts ==
    /\ trim(query) /= << >>
    /\ freeSlot \in Slots
    /\ LET i == freeSlot
           r == [IdleOp EXCEPT !.fn = "processLogisticsRequest",
                               !.caller = "handleSubmit"]
           n == processLogisticsRequestCall(i, r, query)
       IN  track(i, n.op, n.wire)
    /\ loading' = TRUE
    /\ error' = NULL
    /\ stage' = "processing"
    /\ extractedLocations' = NullList
    /\ optimizationResult' = NULL
    /\ last' = "handleSubmitStarts"
    /\ UNCHANGED << apiModule, query >>

handleSubmit == handleSubmitBlank \/ handleSubmitStarts

\* variant: loading is not set when the operation starts
handleMapOptimization_noLoading(locations) ==
    /\ freeSlot \in Slots
    /\ LET i == freeSlot
           r == [IdleOp EXCEPT !.fn = "optimizeRoute",
                               !.caller = "handleMapOptimization",
                               !.arg = locations]
           n == optimizeRouteCall(i, r, locations)
       IN  /\ track(i, n.op, n.wire)
           /\ extractedLocations' = NullList
           /\ optimizationResult' = NULL
           /\ IF settled(n.op)
              THEN /\ error' = orElse(n.op.message, "Route optimization failed")
                   /\ stage' = "input"
                   /\ loading' = FALSE
              ELSE /\ error' = NULL
                   /\ stage' = "processing"
                   /\ UNCHANGED loading
    /\ last' = "handleMapOptimization"
    /\ UNCHANGED << apiModule, query >>

\* handleMapOptimization(locations), the map modal's onOptimize, up to `await optimizeRoute(locations)`; when optimizeRoute throws before
\* its request the catch and finally blocks run before any other handler
handleMapOptimization(locations) ==
    /\ freeSlot \in Slots
    /\ LET i == freeSlot
           r == [IdleOp EXCEPT !.fn = "optimizeRoute",
                               !.caller = "handleMapOptimization",
                               !.arg = locations]
           n == optimizeRouteCall(i, r, locations)
       IN  /\ track(i, n.op, n.wire)
           /\ extractedLocations' = NullList
           /\ optimizationResult' = NULL
           /\ IF settled(n.op)
              THEN /\ error' = orElse(n.op.message, "Route optimization failed")
                   /\ stage' = "input"
                   /\ loading' = FALSE
              ELSE /\ error' = NULL
                   /\ stage' = "processing"
                   /\ loading' = TRUE
    /\ last' = "handleMapOptimization"
    /\ UNCHANGED << apiModule, query >>

\* variant: the operations in flight are detached from their handler, which
\* is never resumed
handleReset_cancels ==
    /\ query' = << >>
    /\ extractedLocations' = NullList
    /\ optimizationResult' = NULL
    /\ error' = NULL
    /\ stage' = "input"
    /\ ops' = [i \in Slots |->
                 IF ops[i].status = "pending"
                 THEN [ops[i] EXCEPT !.caller = "direct"] ELSE ops[i]]
    /\ last' = "handleReset"
    /\ UNCHANGED << apiModule, loading, wire >>

\* variant: the error is not cleared
handleReset_keepsError ==
    /\ query' = << >>
    /\ extractedLocations' = NullList
    /\ optimizationResult' = NULL
    /\ stage' = "input"
    /\ last' = "handleReset"
    /\ UNCHANGED << apiModule, loading, error, ops, wire >>

handleReset ==
    /\ query' = << >>
    /\ extractedLocations' = NullList
    /\ optimizationResult' = NULL
    /\ error' = NULL
    /\ stage' = "input"
    /\ last' = "handleReset"
    /\ UNCHANGED << apiModule, loading, ops, wire >>

(***************************************************************************)
(* The transport client delivers the outcome of a pending request.         *)
(***************************************************************************)
\* variant: a response that arrives after the response of an overlapping
\* operation is discarded
continue_fenced(i, r2, w2) ==
    /\ track(i, r2, w2)
    /\ IF \E o \in Slots : overlapped(i, o)
       THEN UNCHANGED appVars
       ELSE callerResumes(r2)
    /\ last' = "response"
    /\ UNCHANGED apiModule

\* the invocation in slot i continues as record r2 with wire w2
continue(i, r2, w2) ==
    /\ track(i, r2, w2)
    /\ callerResumes(r2)
    /\ last' = "response"
    /\ UNCHANGED apiModule

extractSucceeds(i, parsed) ==
    /\ awaits(i, "extract")
    /\ LET n == afterExtraction(i, ops[i], parsed)
       IN  continue(i, n.op, n.wire)

\* variant: the failed request is sent once more
extractFails_retries(i, outcome, detail) ==
    /\ awaits(i, "extract")
    /\ continue(i,
                ops[i],
                wire \o << Failure(i, EXTRACT, outcome, detail),
                           Request(i, EXTRACT, ops[i].text, NullList) >>)

\* extractSequence resumes with the error api.post rejected with
extractFails(i, outcome, detail) ==
    /\ awaits(i, "extract")
    /\ continue(i,
                reject(ops[i], adapterMessage(apiModule, EXTRACT, outcome, detail)),
                Append(wire, Failure(i, EXTRACT, outcome, detail)))

\* variant: the optimizer's response is not returned
optimizeSucceeds_dropsResult(i, result) ==
    /\ awaits(i, "optimize")
    /\ continue(i,
                resolve(ops[i]),
                Append(wire, Answer(i, OPTIMIZE, result)))

\* optimizeRoute resumes with the response: return response.data
optimizeSucceeds(i, result) ==
    /\ awaits(i, "optimize")
    /\ continue(i,
                resolve([ops[i] EXCEPT !.value = result]),
                Append(wire, Answer(i, OPTIMIZE, result)))

optimizeFails(i, outcome, detail) ==
    /\ awaits(i, "optimize")
    /\ continue(i,
                reject(ops[i], adapterMessage(apiModule, OPTIMIZE, outcome, detail)),
                Append(wire, Failure(i, OPTIMIZE, outcome, detail)))

\* healthCheck resumes with the response: return response.data
healthSucceeds(i, status) ==
    /\ awaits(i, "health")
    /\ continue(i,
                resolve([ops[i] EXCEPT !.value = status]),
                Append(wire, Answer(i, HEALTH, status)))

\* healthCheck resumes with the error api.get rejected with
healthFails(i, outcome, detail) ==
    /\ awaits(i, "health")
    /\ continue(i,
                healthCheckCatch(apiModule, ops[i], outcome),
                Append(wire, Failure(i, HEALTH, outcome, detail)))

\* the failures of a request: an error status (with or without a detail
\* field in the body) or no response at all
Failures ==
    { << "error_status", d >> : d \in Details } \cup { << "timeout", NULL >> }

(***************************************************************************)
(* Direct calls of the api functions (no controller involved).             *)
(***************************************************************************)
\* A call is made when no other call is pending or waits to be returned.
direct(i, n) ==
    /\ idle
    /\ track(i, n.op, n.wire)
    /\ last' = "call"
    /\ UNCHANGED << apiModule, query, loading, error, extractedLocations,
                    optimizationResult, stage >>

callExtractSequence(requestText) ==
    /\ freeSlot \in Slots
    /\ direct(freeSlot,
              extractSequenceCall(freeSlot,
                  [IdleOp EXCEPT !.fn = "extractSequence", !.caller = "direct"],
                  requestText))

callOptimizeRoute(parsedLocations) ==
    /\ freeSlot \in Slots
    /\ direct(freeSlot,
              optimizeRouteCall(freeSlot,
                  [IdleOp EXCEPT !.fn = "optimizeRoute", !.caller = "direct",
                                 !.arg = parsedLocations],
                  parsedLocations))

callProcessLogisticsRequest(requestText) ==
    /\ freeSlot \in Slots
    /\ direct(freeSlot,
              processLogisticsRequestCall(freeSlot,
                  [IdleOp EXCEPT !.fn = "processLogisticsRequest",
                                 !.caller = "direct"],
                  requestText))

\* optimizeFromMap is exported by src/services/api.js only
callOptimizeFromMap(locations) ==
    /\ apiModule = "src"
    /\ freeSlot \in Slots
    /\ direct(freeSlot,
              optimizeFromMapCall(freeSlot,
                  [IdleOp EXCEPT !.fn = "optimizeFromMap", !.caller = "direct",
                                 !.arg = locations],
                  locations))

callHealthCheck ==
    /\ freeSlot \in Slots
    /\ direct(freeSlot,
              healthCheckCall(freeSlot,
                  [IdleOp EXCEPT !.fn = "healthCheck", !.caller = "direct"]))

\* The settled call returns to its caller (the value, or the error thrown).
\* The api functions keep no state from one call to the next: the history of
\* the next call starts empty.
callReturns ==
    /\ \E i \in Slots : ops[i].caller = "direct" /\ settled(ops[i])
    /\ ops' = [i \in Slots |-> IdleOp]
    /\ wire' = << >>
    /\ last' = "return"
    /\ UNCHANGED << apiModule, query, loading, error, extractedLocations,
                    optimizationResult, stage >>

(***************************************************************************)
(* Specifications.                                                         *)
(***************************************************************************)
Init ==
    /\ apiModule \in ApiModules
    /\ query = << >>
    /\ loading = FALSE
    /\ error = NULL
    /\ extractedLocations = NullList
    /\ optimizationResult = NULL
    /\ stage = "input"
    /\ ops = [i \in Slots |-> IdleOp]
    /\ wire = << >>
    /\ last = "init"

\* the application: the controller's handlers and the network
Next ==
    \/ \E q \in Queries : setQuery(q)
    \/ dismissError
    \/ handleSubmit
    \/ freeSlot \in Slots /\ \E locations \in AppLists : handleMapOptimization(locations)
    \/ handleReset
    \/ \E i \in Slots :
          awaits(i, "extract") /\ \E parsed \in AppLists : extractSucceeds(i, parsed)
    \/ \E i \in Slots :
          awaits(i, "extract") /\ \E f \in Failures : extractFails(i, f[1], f[2])
    \/ \E i \in Slots :
          awaits(i, "optimize") /\ \E result \in Results : optimizeSucceeds(i, result)
    \/ \E i \in Slots :
          awaits(i, "optimize") /\ \E f \in Failures : optimizeFails(i, f[1], f[2])

Spec == Init /\ [][Next]_vars

\* The application under fair delivery. Whether an operation completes depends
\* on the path it takes (a list that is null, empty, short or long enough; a
\* response, an error status or a timeout), not on the places or the result:
\* the lists here hold one unsequenced place, and there is one result.
LiveLists ==
    {NullList} \cup
    { List([j \in 1..n |-> CHOOSE l \in AppLocations : l.visit_sequence = NoSeq]) :
        n \in 0..MaxLocs }

LiveResults == {"route-1"}

\* The transport client settles every request: the axios instance is created
\* with timeout: 60000, so a pending request yields a response, an error
\* status or a timeout.
Deliver(i) ==
    \/ \E parsed \in LiveLists : extractSucceeds(i, parsed)
    \/ \E f \in Failures : extractFails(i, f[1], f[2])
    \/ \E result \in LiveResults : optimizeSucceeds(i, result)
    \/ \E f \in Failures : optimizeFails(i, f[1], f[2])

NextLive ==
    \/ \E q \in Queries : setQuery(q)
    \/ dismissError
    \/ handleSubmit
    \/ freeSlot \in Slots /\ \E locations \in LiveLists : handleMapOptimization(locations)
    \/ handleReset
    \/ \E i \in Slots : Deliver(i)

Fairness == \A i \in Slots : WF_vars(Deliver(i))

SpecLive == Init /\ [][NextLive]_vars /\ Fairness

(***************************************************************************)
(* The interface: QueryInput and the buttons App renders. The map modal is *)
(* rendered when showMap is set, which only QueryInput's onSelectFromMap   *)
(* prop does; QueryInput does not use that prop.                           *)
(***************************************************************************)
\* QueryInput's disabled prop: App passes query, setQuery, onSubmit,
\* onSelectFromMap and loading; disabled is undefined
disabled == FALSE

\* <textarea disabled={disabled}>
textareaDisabled == disabled

\* <button disabled={disabled || !query.trim()}>
buttonDisabled == disabled \/ trim(query) = << >>

\* textarea onChange
onChange(q) == ~textareaDisabled /\ setQuery(q)

\* an example query's onClick, rendered in stage input
exampleQuery(q) == stage = "input" /\ trim(q) /= << >> /\ setQuery(q)

\* the button's onClick={onSubmit}
onClick == ~buttonDisabled /\ handleSubmit

\* textarea onKeyPress with Enter: onSubmit()
handleKeyPress == ~textareaDisabled /\ handleSubmit

\* the "Start New Request" button, rendered in stage results
startNewRequest == stage = "results" /\ handleReset

NextUI ==
    \/ \E q \in Queries : onChange(q)
    \/ \E q \in Queries : exampleQuery(q)
    \/ onClick
    \/ handleKeyPress
    \/ startNewRequest
    \/ dismissError
    \/ \E i \in Slots :
          awaits(i, "extract") /\ \E parsed \in AppLists : extractSucceeds(i, parsed)
    \/ \E i \in Slots :
          awaits(i, "extract") /\ \E f \in Failures : extractFails(i, f[1], f[2])
    \/ \E i \in Slots :
          awaits(i, "optimize") /\ \E result \in Results : optimizeSucceeds(i, result)
    \/ \E i \in Slots :
          awaits(i, "optimize") /\ \E f \in Failures : optimizeFails(i, f[1], f[2])

SpecUI == Init /\ [][NextUI]_vars

\* the api functions called directly, one call after the other
NextApi ==
    \/ idle /\ \E t \in Queries : callExtractSequence(t)
    \/ idle /\ \E l \in LocLists : callOptimizeRoute(l)
    \/ idle /\ \E t \in Queries : callProcessLogisticsRequest(t)
    \/ idle /\ \E l \in LocLists : callOptimizeFromMap(l)
    \/ callHealthCheck
    \/ callReturns
    \/ \E i \in Slots :
          awaits(i, "extract") /\ \E parsed \in LocLists : extractSucceeds(i, parsed)
    \/ \E i \in Slots :
          awaits(i, "extract") /\ \E f \in Failures : extractFails(i, f[1], f[2])
    \/ \E i \in Slots :
          awaits(i, "optimize") /\ \E result \in Results : optimizeSucceeds(i, result)
    \/ \E i \in Slots :
          awaits(i, "optimize") /\ \E f \in Failures : optimizeFails(i, f[1], f[2])
    \/ \E i \in Slots :
          awaits(i, "health") /\ \E st \in HealthStatuses : healthSucceeds(i, st)
    \/ \E i \in Slots :
          awaits(i, "health") /\ \E f \in Failures : healthFails(i, f[1], f[2])

SpecApi == Init /\ [][NextApi]_vars

(***************************************************************************)
(* Properties.                                                             *)
(***************************************************************************)
\* the positions in wire of the requests invocation i sent on a route
requestsOf(i, route) ==
    { k \in 1..Len(wire) :
        wire[k].ev = "request" /\ wire[k].op = i /\ wire[k].route = route }

\* event e is the response with this outcome to invocation i on this route
answers(e, i, route, outcome) ==
    e.ev = "response" /\ e.op = i /\ e.route = route /\ e.outcome = outcome

\* invocation i received a successful extraction response
extractionAnswered(i) ==
    \E k \in 1..Len(wire) : answers(wire[k], i, EXTRACT, "ok")

byController(r) == r.caller \in {"handleSubmit", "handleMapOptimization"}

inFlight(r) == r.status = "pending"

\* C1: whenever a submit or submitFromMap completes with a failure (its api
\* call is rejected), the state at that completion has loading = false and
\* stage = input, whatever the state was before.
C1_FailureReturnsToInput ==
    [][\A i \in Slots :
          (ops[i].status /= "rejected" /\ ops'[i].status = "rejected"
             /\ byController(ops'[i]))
          => (loading' = FALSE /\ stage' = "input")]_vars

\* a failed operation completed while another one is still in flight
C1_Witness ==
    \E i, j \in Slots :
        /\ byController(ops[i]) /\ ops[i].status = "rejected"
        /\ byController(ops[j]) /\ inFlight(ops[j])
        /\ last = "response"
        /\ loading = FALSE /\ stage = "input" /\ error /= NULL

\* C2 (as claimed): when the extraction response's parsed_locations is missing,
\* empty or has one entry, processLogisticsRequest is rejected with
\* "At least two locations are required." and sends no /optimize-route request.
C2_GateAtTwoLocations ==
    \A i \in Slots :
        (/\ ops[i].fn = "processLogisticsRequest"
         /\ extractionAnswered(i)
         /\ (ops[i].extracted.isNull \/ Len(ops[i].extracted.items) <= 1))
        => /\ ops[i].status = "rejected"
           /\ ops[i].message = "At least two locations are required."
           /\ requestsOf(i, OPTIMIZE) = {}

\* C3: optimizeFromMap called with a null list or fewer than 2 locations is
\* rejected with "Select at least two locations." and sends no request at all.
C3_MapGateSendsNothing ==
    \A i \in Slots :
        (/\ ops[i].fn = "optimizeFromMap"
         /\ (ops[i].arg.isNull \/ Len(ops[i].arg.items) < 2))
        => /\ ops[i].status = "rejected"
           /\ ops[i].message = "Select at least two locations."
           /\ \A k \in 1..Len(wire) : wire[k].op /= i

\* optimizeFromMap was called with exactly one location
C3_Witness ==
    \E i \in Slots :
        /\ ops[i].fn = "optimizeFromMap"
        /\ ~ops[i].arg.isNull /\ Len(ops[i].arg.items) = 1
        /\ ops[i].status = "rejected"
        /\ wire = << >>

\* C4 (as claimed): the controller's map operation given fewer than 2 locations
\* transmits no /optimize-route request and ends with stage = input,
\* loading = false and an error.
C4_ControllerMapGate ==
    \A i \in Slots :
        (/\ ops[i].caller = "handleMapOptimization"
         /\ (ops[i].arg.isNull \/ Len(ops[i].arg.items) < 2))
        => /\ requestsOf(i, OPTIMIZE) = {}
           /\ ops[i].status = "rejected"
           /\ (last = "handleMapOptimization"
                 => stage = "input" /\ loading = FALSE /\ error /= NULL)

\* C5: in the text flow an /optimize-route request is sent only after the
\* successful /extract-sequence response of the same invocation, and none is
\* sent when the extraction failed.
C5_ExtractionBeforeOptimization ==
    \A i \in Slots :
        ops[i].fn = "processLogisticsRequest" =>
            /\ \A k \in requestsOf(i, OPTIMIZE) :
                  \E j \in 1..(k - 1) : answers(wire[j], i, EXTRACT, "ok")
            /\ (\E j \in 1..Len(wire) :
                    /\ wire[j].ev = "response" /\ wire[j].op = i
                    /\ wire[j].route = EXTRACT /\ wire[j].outcome /= "ok")
               => requestsOf(i, OPTIMIZE) = {}

\* a text submit sent its optimization request while another invocation's
\* events are on the wire too
C5_Witness ==
    \E i, j \in Slots :
        /\ i /= j
        /\ ops[i].caller = "handleSubmit" /\ requestsOf(i, OPTIMIZE) /= {}
        /\ requestsOf(j, EXTRACT) /= {}

\* C6: right after reset(), in whatever stage and with or without an
\* operation in flight, stage = input, the query is empty and error,
\* extractedLocations and optimizationResult are cleared.
C6_ResetClears ==
    last = "handleReset" =>
        /\ stage = "input"
        /\ query = << >>
        /\ error = NULL
        /\ extractedLocations = NullList
        /\ optimizationResult = NULL

\* reset() ran while an operation was in flight
C6_Witness ==
    /\ last = "handleReset"
    /\ loading = TRUE
    /\ \E i \in Slots : byController(ops[i]) /\ inFlight(ops[i])

C8_PositionalSequence ==
    \A i \in Slots :
        (/\ ops[i].fn = "optimizeRoute"
         /\ ~ops[i].arg.isNull /\ Len(ops[i].arg.items) >= 1
         /\ \A j \in 1..Len(ops[i].arg.items) :
                ops[i].arg.items[j].visit_sequence = NoSeq)
        => /\ requestsOf(i, OPTIMIZE) /= {}
           /\ \A k \in requestsOf(i, OPTIMIZE) :
                /\ ~wire[k].locs.isNull
                /\ Len(wire[k].locs.items) = Len(ops[i].arg.items)
                /\ \A j \in 1..Len(ops[i].arg.items) :
                      /\ wire[k].locs.items[j].name = ops[i].arg.items[j].name
                      /\ wire[k].locs.items[j].lat = ops[i].arg.items[j].lat
                      /\ wire[k].locs.items[j].lon = ops[i].arg.items[j].lon
                      /\ wire[k].locs.items[j].visit_sequence = j

\* C9 (as claimed): the visit_sequence values of every /optimize-route request
\* are pairwise distinct and form the set 1..n, n the number of its locations.
C9_SequencesFormOneToN ==
    \A k \in 1..Len(wire) :
        (wire[k].ev = "request" /\ wire[k].route = OPTIMIZE)
        => /\ ~wire[k].locs.isNull
           /\ { wire[k].locs.items[j].visit_sequence :
                    j \in 1..Len(wire[k].locs.items) }
                = 1..Len(wire[k].locs.items)

\* C10 (as claimed): the request of the controller's map operation for >= 2
\* selected locations carries visit_sequence = index + 1 at every entry,
\* whatever the selection carried; the request of a text submit carries every
\* non-null visit_sequence of the extraction unchanged.
C10_MapOverwritesTextKeeps ==
    \A i \in Slots : \A k \in requestsOf(i, OPTIMIZE) :
        /\ (/\ ops[i].caller = "handleMapOptimization"
            /\ ~ops[i].arg.isNull /\ Len(ops[i].arg.items) >= 2)
           => /\ ~wire[k].locs.isNull
              /\ Len(wire[k].locs.items) = Len(ops[i].arg.items)
              /\ \A j \in 1..Len(wire[k].locs.items) :
                    wire[k].locs.items[j].visit_sequence = j
        /\ ops[i].caller = "handleSubmit"
           => /\ ~wire[k].locs.isNull
              /\ Len(wire[k].locs.items) = Len(ops[i].extracted.items)
              /\ \A j \in 1..Len(wire[k].locs.items) :
                    ops[i].extracted.items[j].visit_sequence /= NoSeq
                    => wire[k].locs.items[j].visit_sequence
                         = ops[i].extracted.items[j].visit_sequence

\* C11: healthCheck never raises: for every outcome of the GET /health call
\* (success, error-status response, no response) it resolves to a value, and
\* on every failure outcome that value has status = "offline".
C11_HealthCheckNeverRaises ==
    \A i \in Slots :
        ops[i].fn = "healthCheck" =>
            /\ ops[i].status /= "rejected"
            /\ \A k \in 1..Len(wire) :
                  (wire[k].ev = "response" /\ wire[k].op = i)
                  => /\ ops[i].status = "resolved"
                     /\ wire[k].outcome /= "ok" => ops[i].value = "offline"

\* healthCheck resolved after its request got no response
C11_Witness ==
    \E i \in Slots :
        /\ ops[i].fn = "healthCheck"
        /\ ops[i].status = "resolved" /\ ops[i].value = "offline"
        /\ \E k \in 1..Len(wire) : answers(wire[k], i, HEALTH, "timeout")

\* C12 (as claimed): when the extraction or optimization call of a text submit
\* receives an error-status response whose body carries a detail field, the
\* error the controller stores at the failed submit's completion equals that
\* detail string.
C12_DetailSurfaced ==
    [][\A i \in Slots :
          (/\ ops[i].status = "pending" /\ ops'[i].status = "rejected"
           /\ ops'[i].caller = "handleSubmit"
           /\ Len(wire') > 0
           /\ wire'[Len(wire')].ev = "response" /\ wire'[Len(wire')].op = i
           /\ wire'[Len(wire')].outcome = "error_status"
           /\ wire'[Len(wire')].detail /= NULL)
          => error' = wire'[Len(wire')].detail]_vars

\* C13 (as claimed): when an extraction or optimization call receives no
\* response at all, the error it raises carries the fixed fallback message of
\* its route, not a string of the response or of the transport error.
C13_TimeoutGivesFallback ==
    \A i \in Slots : \A k \in 1..Len(wire) :
        (/\ wire[k].ev = "response" /\ wire[k].op = i
         /\ wire[k].outcome = "timeout"
         /\ wire[k].route \in {EXTRACT, OPTIMIZE})
        => /\ ops[i].status = "rejected"
           /\ ops[i].message =
                IF wire[k].route = EXTRACT
                THEN "Failed to extract locations from your request. Please try again."
                ELSE "Failed to optimize route. Please check your input and try again."

\* a text submit's invocation i fails in this step
submitFails(i) ==
    /\ ops[i].status = "pending" /\ ops'[i].status = "rejected"
    /\ ops'[i].caller = "handleSubmit"

\* C14 (as claimed): if either step of a text submit fails, extractedLocations
\* and optimizationResult are both empty after the failed submit.
C14_FailedSubmitLeavesEmpty ==
    [][\A i \in Slots :
          submitFails(i)
          => extractedLocations' = NullList /\ optimizationResult' = NULL]_vars

\* C14 (amended): if either step of a text submit fails, the failed run commits
\* nothing: its completion leaves extractedLocations and optimizationResult as
\* they were, and they are empty unless another operation completed after the
\* last operation was started (loading is no longer true).
C14_FailedSubmitCommitsNothing ==
    [][\A i \in Slots :
          submitFails(i)
          => /\ UNCHANGED << extractedLocations, optimizationResult >>
             /\ loading
                  => extractedLocations' = NullList /\ optimizationResult' = NULL]_vars

\* a text submit failed at its optimization step, after its extraction succeeded
C14_Witness ==
    \E i \in Slots :
        /\ ops[i].caller = "handleSubmit" /\ ops[i].status = "rejected"
        /\ ~ops[i].extracted.isNull /\ Len(ops[i].extracted.items) >= 2
        /\ \E k \in 1..Len(wire) : answers(wire[k], i, OPTIMIZE, "timeout")
        /\ last = "response"
        /\ extractedLocations = NullList /\ optimizationResult = NULL

\* a text submit's invocation i, whose extraction returned at least two
\* locations, succeeds in this step
submitSucceeds(i) ==
    /\ ops[i].status = "pending" /\ ops'[i].status = "resolved"
    /\ ops'[i].caller = "handleSubmit"
    /\ \E k \in 1..Len(wire') :
          /\ answers(wire'[k], i, EXTRACT, "ok")
          /\ ~wire'[k].locs.isNull /\ Len(wire'[k].locs.items) >= 2

\* the completion commits the extraction response's parsed_locations and the
\* optimizer's response, in stage results with loading = false
commitsSubmit(i) ==
    /\ stage' = "results"
    /\ loading' = FALSE
    /\ \A k \in 1..Len(wire') :
          answers(wire'[k], i, EXTRACT, "ok") => extractedLocations' = wire'[k].locs
    /\ answers(wire'[Len(wire')], i, OPTIMIZE, "ok")
    /\ optimizationResult' = wire'[Len(wire')].result

\* C15 (as claimed): a successful text submit ends with stage = results,
\* loading = false, error cleared, extractedLocations equal to the extraction
\* response's parsed_locations and optimizationResult equal to the optimizer's
\* response.
C15_SuccessfulSubmitCommits ==
    [][\A i \in Slots :
          submitSucceeds(i) => commitsSubmit(i) /\ error' = NULL]_vars

\* C15 (amended): a successful text submit ends with stage = results,
\* loading = false, extractedLocations equal to the extraction response's
\* parsed_locations and optimizationResult equal to the optimizer's response;
\* its completion leaves error as it was.
C15_SuccessfulSubmitKeepsError ==
    [][\A i \in Slots :
          submitSucceeds(i) => commitsSubmit(i) /\ error' = error]_vars

\* a text submit succeeded with two locations while an error, set during its
\* flight, is stored
C15_Witness ==
    \E i \in Slots :
        /\ ops[i].caller = "handleSubmit" /\ ops[i].status = "resolved"
        /\ last = "response"
        /\ stage = "results" /\ loading = FALSE
        /\ ~extractedLocations.isNull /\ Len(extractedLocations.items) = 2
        /\ extractedLocations = ops[i].extracted
        /\ optimizationResult = ops[i].value /\ optimizationResult /= NULL
        /\ error /= NULL

\* a map operation's invocation i succeeds in this step
mapSucceeds(i) ==
    /\ ops[i].status = "pending" /\ ops'[i].status = "resolved"
    /\ ops'[i].caller = "handleMapOptimization"

\* a map operation's invocation i fails in this step
mapFails(i) ==
    /\ ops[i].status /= "rejected" /\ ops'[i].status = "rejected"
    /\ ops'[i].caller = "handleMapOptimization"

\* the successful map operation sent no /extract-sequence request and commits
\* the submitted locations in stage results
commitsMap(i) ==
    /\ \A k \in 1..Len(wire') :
          wire'[k].op = i => wire'[k].route /= EXTRACT
    /\ stage' = "results"
    /\ extractedLocations' = ops'[i].arg

\* C16 (as claimed): a successful submitFromMap sends no /extract-sequence
\* request and ends with stage = results and extractedLocations equal to the
\* submitted locations; a failed submitFromMap leaves extractedLocations empty.
C16_MapCommitsSubmitted ==
    [][\A i \in Slots :
          /\ mapSucceeds(i) => commitsMap(i)
          /\ mapFails(i) => extractedLocations' = NullList]_vars

\* C16 (amended): a successful submitFromMap sends no /extract-sequence request
\* and ends with stage = results and extractedLocations equal to the submitted
\* locations; a failed submitFromMap commits nothing: extractedLocations is
\* empty after it unless another operation completed after the last operation
\* was started, and then it is left as it was.
C16_MapFailureCommitsNothing ==
    [][\A i \in Slots :
          /\ mapSucceeds(i) => commitsMap(i)
          /\ mapFails(i)
               => /\ ops[i].status = "pending"
                       => extractedLocations' = extractedLocations
                  /\ (ops[i].status /= "pending" \/ loading)
                       => extractedLocations' = NullList]_vars

\* a map operation succeeded and its submitted locations are committed
C16_Witness ==
    \E i \in Slots :
        /\ ops[i].caller = "handleMapOptimization" /\ ops[i].status = "resolved"
        /\ last = "response"
        /\ stage = "results"
        /\ ~ops[i].arg.isNull /\ Len(ops[i].arg.items) = 2
        /\ extractedLocations = ops[i].arg
        /\ requestsOf(i, EXTRACT) = {} /\ requestsOf(i, OPTIMIZE) /= {}

\* C17: every submit or submitFromMap that starts an operation (sets
\* loading = true) is eventually followed by a state in which that operation
\* has completed and loading was set to false, on success and on failure,
\* given that each network call eventually yields a response, an error or a
\* timeout.
C17_LoadingEventuallyCleared ==
    \A i \in Slots :
        (byController(ops[i]) /\ inFlight(ops[i]))
        ~> (settled(ops[i]) /\ last = "response" /\ loading = FALSE)

\* an operation that was in flight has completed and loading is false, while
\* another operation is still in flight
C17_Witness ==
    \E i, j \in Slots :
        /\ byController(ops[i]) /\ settled(ops[i])
        /\ \E k \in 1..Len(wire) : wire[k].ev = "request" /\ wire[k].op = i
        /\ last = "response" /\ loading = FALSE
        /\ byController(ops[j]) /\ inFlight(ops[j])

\* the number of requests of invocation i on a route in the history w
sent(w, i, route) ==
    Cardinality({ k \in 1..Len(w) :
        w[k].ev = "request" /\ w[k].op = i /\ w[k].route = route })

\* C18: there is no retry: one submit sends at most one /extract-sequence and
\* at most one /optimize-route request, one submitFromMap at most one
\* /optimize-route request and no /extract-sequence request, and a request is
\* sent only by the step in which the caller invokes the operation or by the
\* step in which a submit's extraction succeeds; never after a failure.
C18_NoRetry ==
    [][\A i \in Slots :
          /\ byController(ops'[i])
               => /\ sent(wire', i, EXTRACT) <= 1
                  /\ sent(wire', i, OPTIMIZE) <= 1
                  /\ ops'[i].caller = "handleMapOptimization"
                       => sent(wire', i, EXTRACT) = 0
          /\ \A route \in {EXTRACT, OPTIMIZE} :
                sent(wire', i, route) > sent(wire, i, route)
                => \/ /\ ops[i].pc = "idle"
                      /\ last' \in {"handleSubmitStarts", "handleMapOptimization"}
                   \/ /\ ops[i].pc = "extract" /\ route = OPTIMIZE
                      /\ last' = "response"
                      /\ answers(wire'[Len(wire') - 1], i, EXTRACT, "ok")]_vars

\* a text submit failed at its optimization step after one request on each
\* route, and a later step of the caller sent nothing
C18_Witness ==
    \E i \in Slots :
        /\ ops[i].caller = "handleSubmit" /\ ops[i].status = "rejected"
        /\ sent(wire, i, EXTRACT) = 1 /\ sent(wire, i, OPTIMIZE) = 1
        /\ wire[Len(wire)].ev = "response" /\ wire[Len(wire)].op = i
        /\ last = "dismissError"

\* the stage changes of the documented state machine
StageEdges ==
    { << "input", "processing" >>, << "processing", "results" >>,
      << "processing", "input" >>, << "results", "input" >> }

\* C19 (as claimed): stage only ever changes along the edges
\* input -> processing, processing -> results, processing -> input and
\* results -> input.
C19_StageEdges ==
    [][stage' /= stage => << stage, stage' >> \in StageEdges]_vars

\* the controller's invocation i completes in this step, after the response of
\* another operation that was in flight at the same time
completesLast(i) ==
    /\ ops[i].status = "pending" /\ settled(ops'[i])
    /\ byController(ops'[i])
    /\ \E j \in Slots : byController(ops[j]) /\ overlapped(i, j)

\* what a successful invocation i commits as extractedLocations
ownLocations(i) ==
    IF ops'[i].caller = "handleSubmit" THEN ops'[i].extracted ELSE ops'[i].arg

\* C20 (as claimed): with two operations in flight at once, the committed
\* extractedLocations, optimizationResult, error and stage are those of
\* whichever response arrives last.
C20_LastResponseWins ==
    [][\A i \in Slots :
          completesLast(i)
          => IF ops'[i].status = "resolved"
             THEN /\ stage' = "results"
                  /\ extractedLocations' = ownLocations(i)
                  /\ optimizationResult' = ops'[i].value
                  /\ error' = NULL
             ELSE /\ stage' = "input"
                  /\ error' = ops'[i].message
                  /\ extractedLocations' = NullList
                  /\ optimizationResult' = NULL]_vars

\* C20 (amended): with two operations in flight at once there is no fencing:
\* the response that arrives last sets stage; a success arriving last
\* overwrites extractedLocations and optimizationResult with its own and leaves
\* error as the other operation left it; a failure arriving last overwrites
\* error and leaves extractedLocations and optimizationResult as the other
\* operation left them.
C20_LastResponseOverwrites ==
    [][\A i \in Slots :
          completesLast(i)
          => IF ops'[i].status = "resolved"
             THEN /\ stage' = "results"
                  /\ extractedLocations' = ownLocations(i)
                  /\ optimizationResult' = ops'[i].value
                  /\ error' = error
             ELSE /\ stage' = "input"
                  /\ error' = ops'[i].message
                  /\ UNCHANGED << extractedLocations, optimizationResult >>]_vars

\* the success of an operation arrived after the failure of an overlapping
\* one: its result is committed in stage results, the other's error is stored
C20_Witness ==
    \E i \in Slots :
        /\ byController(ops[i]) /\ ops[i].late
        /\ ops[i].status = "resolved"
        /\ last = "response"
        /\ stage = "results"
        /\ optimizationResult = ops[i].value /\ optimizationResult /= NULL
        /\ error /= NULL

\* C21: reset() does not cancel an operation in flight: a submit that is in
\* flight when reset() runs still completes, and its outcome is committed
\* after the reset: stage = results with its locations and result on success,
\* stage = input with its error on failure.
C21_ResetDoesNotCancel ==
    \A i \in Slots :
        (/\ last = "handleReset"
         /\ ops[i].fn = "processLogisticsRequest" /\ inFlight(ops[i]))
        ~> (/\ settled(ops[i]) /\ last = "response"
            /\ loading = FALSE
            /\ IF ops[i].status = "resolved"
               THEN /\ stage = "results"
                    /\ extractedLocations = ops[i].extracted
                    /\ optimizationResult = ops[i].value
                    /\ optimizationResult /= NULL
               ELSE /\ stage = "input"
                    /\ error = ops[i].message /\ error /= NULL)

\* reset() ran while a submit awaited its optimization response: the state is
\* cleared and the operation is still in flight
C21_Witness ==
    \E i \in Slots :
        /\ last = "handleReset"
        /\ ops[i].caller = "handleSubmit" /\ awaits(i, "optimize")
        /\ stage = "input" /\ query = << >>
        /\ extractedLocations = NullList /\ optimizationResult = NULL

\* C22 (as claimed): while loading = true the interface's submit trigger is
\* disabled (neither the button nor the Enter key runs onSubmit), so at most
\* one operation started through the interface is in flight at any time.
C22_TriggerDisabledWhileLoading ==
    [][/\ loading => last' \notin {"handleSubmitStarts", "handleSubmitBlank"}
       /\ Cardinality({ i \in Slots :
              byController(ops'[i]) /\ inFlight(ops'[i]) }) <= 1]_vars

\* a list of at least two locations, none of which carries a visit_sequence
unsequenced(l) ==
    /\ ~l.isNull /\ Len(l.items) >= 2
    /\ \A j \in 1..Len(l.items) : l.items[j].visit_sequence = NoSeq

\* the locations of l, numbered by position
numbered(l) ==
    List([j \in 1..Len(l.items) |->
            [name |-> l.items[j].name, lat |-> l.items[j].lat,
             lon |-> l.items[j].lon, visit_sequence |-> j]])

\* C23: for every list of >= 2 locations without visit_sequence, the
\* /optimize-route request of optimizeFromMap is identical to the request of
\* optimizeRoute called with the same list (src/services/api.js): each sends
\* one request, whose body is a function of the list alone.
C23_FlowsConverge ==
    \A i \in Slots :
        (/\ apiModule = "src"
         /\ ops[i].fn \in {"optimizeFromMap", "optimizeRoute"}
         /\ unsequenced(ops[i].arg))
        => /\ sent(wire, i, OPTIMIZE) = 1 /\ sent(wire, i, EXTRACT) = 0
           /\ \A k \in requestsOf(i, OPTIMIZE) :
                 wire[k] = Request(i, OPTIMIZE, << >>, numbered(ops[i].arg))

\* optimizeFromMap sent its request for two different unsequenced places
C23_Witness ==
    \E i \in Slots :
        /\ ops[i].fn = "optimizeFromMap" /\ unsequenced(ops[i].arg)
        /\ ops[i].arg.items[1].name /= ops[i].arg.items[2].name
        /\ \E k \in requestsOf(i, OPTIMIZE) :
              /\ wire[k].locs.items[1].visit_sequence = 1
              /\ wire[k].locs.items[2].visit_sequence = 2

\* the list optimizeRoute was given by invocation i: the parsed_locations of
\* the extraction response in the text flow, the handler's argument otherwise
givenList(i) ==
    IF ops[i].fn = "processLogisticsRequest"
    THEN wire[CHOOSE k \in 1..Len(wire) : answers(wire[k], i, EXTRACT, "ok")].locs
    ELSE ops[i].arg

\* C24: optimizeRoute is deterministic and pure: the request it transmits is
\* a function of the list it was given alone (equal lists give equal requests,
\* whichever calls happened before or run in between), and the list is the
\* same after the call as before.
C24_NormalizationPure ==
    \A i \in Slots : \A k \in requestsOf(i, OPTIMIZE) :
        LET given == givenList(i)
        IN  /\ wire[k].locs =
                  IF apiModule = "src"
                  THEN List([j \in 1..Len(given.items) |->
                          [name |-> given.items[j].name,
                           lat |-> given.items[j].lat,
                           lon |-> given.items[j].lon,
                           visit_sequence |->
                              IF given.items[j].visit_sequence = NoSeq
                              THEN j ELSE given.items[j].visit_sequence]])
                  ELSE given
            /\ ops[i].fn = "processLogisticsRequest" => ops[i].extracted = given
            /\ ops[i].fn = "optimizeRoute" => ops[i].arg = given

\* a text submit's optimizeRoute call numbered an unsequenced location in its
\* request and left the extracted list as it was, while another operation's
\* request is on the wire too
C24_Witness ==
    \E i, j \in Slots :
        /\ i /= j
        /\ ops[i].fn = "processLogisticsRequest"
        /\ \E k \in requestsOf(i, OPTIMIZE) :
              /\ wire[k].locs.items[1].visit_sequence = 1
              /\ ops[i].extracted.items[1].visit_sequence = NoSeq
        /\ requestsOf(j, OPTIMIZE) /= {}

\* some submit or submitFromMap operation is in flight
someInFlight == \E i \in Slots : byController(ops[i]) /\ inFlight(ops[i])

\* C25 (as claimed): loading is true exactly when at least one submit or
\* submitFromMap operation is in flight.
C25_LoadingIffInFlight == loading <=> someInFlight

\* operation j completed while operation i was in flight: its response
\* followed a request of i, or it failed before sending anything
completedDuring(i, j) ==
    /\ j /= i /\ byController(ops[j]) /\ settled(ops[j])
    /\ \/ \E a, b \in 1..Len(wire) :
             /\ a < b
             /\ wire[a].ev = "request" /\ wire[a].op = i
             /\ wire[b].ev = "response" /\ wire[b].op = j
       \/ \A k \in 1..Len(wire) : wire[k].op /= j

\* C25 (amended): loading = true implies that an operation is in flight; an
\* operation is in flight with loading = false only when another operation
\* completed while it was in flight.
C25_LoadingImpliesInFlight ==
    /\ loading => someInFlight
    /\ \A i \in Slots :
          (byController(ops[i]) /\ inFlight(ops[i]) /\ ~loading)
          => \E j \in Slots : completedDuring(i, j)

\* an operation is in flight with loading = false, after the success of an
\* overlapping operation
C25_Witness ==
    \E i, j \in Slots :
        /\ byController(ops[i]) /\ inFlight(ops[i])
        /\ completedDuring(i, j) /\ ops[j].status = "resolved"
        /\ last = "response"
        /\ loading = FALSE /\ stage = "results"

\* C26 (as claimed): stage = processing holds exactly when loading = true.
C26_ProcessingIffLoading == (stage = "processing") <=> loading

\* C26 (amended): stage = processing implies loading = true; loading = true
\* with another stage happens only after reset() ran while an operation was in
\* flight: stage = input with extractedLocations and optimizationResult empty.
C26_ProcessingImpliesLoading ==
    /\ stage = "processing" => loading
    /\ (loading /\ stage /= "processing")
         => /\ stage = "input"
            /\ extractedLocations = NullList /\ optimizationResult = NULL
            /\ someInFlight

\* after reset() during an operation, a new query is typed while the
\* operation is still in flight: loading = true in stage input
C26_Witness ==
    /\ loading /\ stage = "input"
    /\ last = "setQuery" /\ query /= << >>
    /\ someInFlight

\* C27 (as claimed): in every state with stage = results, extractedLocations
\* and optimizationResult are both populated (non-null).
C27_ResultsPopulated ==
    stage = "results" => ~extractedLocations.isNull /\ optimizationResult /= NULL

\* C28 (as claimed): a non-null error and a non-null optimizationResult never
\* coexist.
C28_ErrorExcludesResult == ~(error /= NULL /\ optimizationResult /= NULL)

====
